---------------------------- MODULE Spec2Model ----------------------------
(***************************************************************************)
(* Model of saggitarius-path: the Path facade, the PathDriver contract and  *)
(* the two drivers (win32, posix) of src/src/driver/win32.ts.               *)
(*                                                                         *)
(* A JavaScript string is a sequence of one-character strings, so           *)
(* "c:\a" is <<"c", ":", "\\", "a">> and "" is <<>>.  A value that may not   *)
(* be a string (an argument of resolve / join) is a record [t, v] carrying  *)
(* its typeof in t.                                                        *)
(***************************************************************************)
EXTENDS Integers, Sequences, FiniteSets, TLC

VARIABLES Driver, cwd, env, pc, call, ret

vars == <<Driver, cwd, env, pc, call, ret>>

-----------------------------------------------------------------------------
(* Bounds of the model *)

\* longest path string drawn as the input of a one-path operation
MaxLen == 5
\* longest string drawn as an argument of a two-path or variadic operation
MaxArgLen == 2
\* longest segment list handed to normalizeArray directly
MaxParts == 5
\* longest string the facade is called with in the full state machine
MaxSmall == 1

-----------------------------------------------------------------------------
(* Characters and JavaScript string primitives *)

BS == "\\"
FS == "/"
DOT == "."
COLON == ":"

\* the letters of the alphabet of the model, [a-zA-Z] restricted to it
LowerLetters == {"c", "d"}
UpperLetters == {"C", "D"}
Letters == LowerLetters \cup UpperLetters

\* the characters input strings are drawn from
Chars == {"c", "C", COLON, DOT, FS, BS}

\* String.prototype.toLowerCase on one character
LowerChar(ch) == CASE ch = "C" -> "c" [] ch = "D" -> "d" [] OTHER -> ch

toLowerCase(s) == [i \in 1..Len(s) |-> LowerChar(s[i])]

\* s.substr(0, n)
substr0(s, n) == SubSeq(s, 1, IF n < Len(s) THEN n ELSE Len(s))

\* s.substr(1) / s.substring(k) / arr.slice(k): everything from 0-based index k
sliceFrom(s, k) == SubSeq(s, k + 1, Len(s))

\* s.slice(0, -1)
dropLast(s) == SubSeq(s, 1, Len(s) - 1)

\* the separators a driver's patterns accept
WinSeps == {BS, FS}
PosixSeps == {FS}

\* first index j >= i with s[j] outside (inside = FALSE) or inside (inside =
\* TRUE) the set cs, or Len(s) + 1: the end of a greedy character-class run
RunEnd(s, i, cs, inside) ==
    LET stops == {j \in i..Len(s) : (s[j] \in cs) = inside}
    IN  IF stops = {} THEN Len(s) + 1
        ELSE CHOOSE j \in stops : \A k \in stops : j <= k

RECURSIVE SplitLoop(_, _, _, _, _, _)
SplitLoop(s, seps, collapse, i, cur, out) ==
    IF i > Len(s) THEN Append(out, cur)
    ELSE IF s[i] \in seps
         THEN IF collapse /\ i > 1 /\ s[i - 1] \in seps
              THEN SplitLoop(s, seps, collapse, i + 1, cur, out)
              ELSE SplitLoop(s, seps, collapse, i + 1, <<>>, Append(out, cur))
         ELSE SplitLoop(s, seps, collapse, i + 1, Append(cur, s[i]), out)

\* s.split(/[\\\/]+/): the pieces between maximal runs of separators
splitRuns(s, seps) == SplitLoop(s, seps, TRUE, 1, <<>>, <<>>)

\* s.split(ch): the pieces between single occurrences of ch
splitChar(s, ch) == SplitLoop(s, {ch}, FALSE, 1, <<>>, <<>>)

RECURSIVE JoinLoop(_, _, _, _)
JoinLoop(parts, sep, i, acc) ==
    IF i > Len(parts) THEN acc
    ELSE JoinLoop(parts, sep, i + 1,
                  IF i = 1 THEN parts[i] ELSE acc \o sep \o parts[i])

\* Array.prototype.join(sep) on an array of strings
joinWith(parts, sep) == JoinLoop(parts, sep, 1, <<>>)

-----------------------------------------------------------------------------
(* Values that may not be strings, and results *)

Str(s) == [t |-> "string", v |-> s]
Num42 == [t |-> "number", v |-> <<>>]
Undefined == [t |-> "undefined", v |-> <<>>]

isString(value) == value.t = "string"

Ok(v) == [threw |-> FALSE, val |-> v]
\* a TypeError thrown out of the operation: there is no return value
TypeError == [threw |-> TRUE, val |-> <<>>]

-----------------------------------------------------------------------------
(* Helpers shared by both drivers *)

RECURSIVE normalizeArrayLoop(_, _, _, _)
normalizeArrayLoop(parts, allowAboveRoot, i, res) ==
    IF i > Len(parts) THEN res
    ELSE LET p == parts[i] IN
         IF p = <<>> \/ p = <<DOT>>
         THEN normalizeArrayLoop(parts, allowAboveRoot, i + 1, res)
         ELSE IF p = <<DOT, DOT>>
              THEN IF Len(res) > 0 /\ res[Len(res)] # <<DOT, DOT>>
                   THEN normalizeArrayLoop(parts, allowAboveRoot, i + 1,
                                           SubSeq(res, 1, Len(res) - 1))
                   ELSE IF allowAboveRoot
                        THEN normalizeArrayLoop(parts, allowAboveRoot, i + 1,
                                                Append(res, <<DOT, DOT>>))
                        ELSE normalizeArrayLoop(parts, allowAboveRoot, i + 1, res)
              ELSE normalizeArrayLoop(parts, allowAboveRoot, i + 1, Append(res, p))

\* a faulty variant of normalizeArray: '..' pops whatever is on top of the stack
normalizeArrayPopsDotDot(parts, allowAboveRoot) ==
    LET F[i \in 0..Len(parts)] ==
            IF i = 0 THEN <<>>
            ELSE LET p == parts[i]
                     res == F[i - 1]
                 IN  IF p = <<>> \/ p = <<DOT>> THEN res
                     ELSE IF p = <<DOT, DOT>>
                          THEN IF Len(res) > 0 THEN SubSeq(res, 1, Len(res) - 1)
                               ELSE IF allowAboveRoot THEN Append(res, p) ELSE res
                          ELSE Append(res, p)
    IN  F[Len(parts)]

normalizeArray(parts, allowAboveRoot) ==
    normalizeArrayLoop(parts, allowAboveRoot, 1, <<>>)

trimArray(arr) ==
    LET lastIndex == Len(arr)
        start == RunEnd(arr, 1, {<<>>}, FALSE)
        filled == {j \in 1..lastIndex : arr[j] # <<>>}
        end == IF filled = {} THEN 0
               ELSE CHOOSE j \in filled : \A k \in filled : k <= j
    IN  IF start = 1 /\ end = lastIndex THEN arr
        ELSE IF start > end THEN <<>>
        ELSE SubSeq(arr, start, end)

-----------------------------------------------------------------------------
(* The two structural patterns *)

\* the candidates (b, e) of the tail pattern at directory length i: b
\* characters of base before the extension, e characters of extension, and
\* nothing but separators after them
tailCands(s, seps, i) ==
    LET n == Len(s) IN
    {be \in (0..(n - i)) \X (0..(n - i)) :
        LET b == be[1]
            e == be[2]
        IN  /\ b + e <= n - i
            /\ \A k \in (i + 1)..(i + b) : s[k] \notin seps
            /\ e > 0 => /\ s[i + b + 1] = DOT
                        /\ \A k \in (i + b + 2)..(i + b + e) :
                               s[k] # DOT /\ s[k] \notin seps
            /\ \A k \in (i + b + e + 1)..n : s[k] \in seps}

\* the order in which the backtracking matcher tries the candidates: the
\* alternatives of (?:\.{1,2}|[^\\\/]+?|) left to right, \.{1,2} and the
\* extension greedy, [^\\\/]+? lazy
tailKey(s, i, be) ==
    LET n == Len(s)
        b == be[1]
        e == be[2]
        dots == \A k \in (i + 1)..(i + b) : s[k] = DOT
        brank == IF b = 0 THEN n + 2
                 ELSE IF b = 2 /\ dots THEN 0
                 ELSE IF b = 1 /\ dots THEN 1
                 ELSE b + 1
        erank == IF e = 0 THEN n + 1 ELSE n - e
    IN  brank * (n + 2) + erank

\* /^([\s\S]*?)((?:\.{1,2}|[^\\\/]+?|)(\.[^.\/\\]*|))(?:[\\\/]*)$/ : the lazy
\* first group takes the shortest directory for which the rest matches, and
\* for it the first candidate in backtracking order
matchTail(s, seps) ==
    LET groups(i, be) ==
            [dir  |-> SubSeq(s, 1, i),
             base |-> SubSeq(s, i + 1, i + be[1] + be[2]),
             ext  |-> SubSeq(s, i + be[1] + 1, i + be[1] + be[2])]
        first(i, cands) ==
            groups(i, CHOOSE c \in cands :
                          \A d \in cands : tailKey(s, i, c) <= tailKey(s, i, d))
        at(i) == first(i, tailCands(s, seps, i))
        shortest(starts) == at(CHOOSE x \in starts : \A y \in starts : x <= y)
    IN  shortest({i \in 0..Len(s) : tailCands(s, seps, i) # {}})

\* the length of group 1 of splitDeviceRe, 0 when the optional group does not
\* take part: [a-zA-Z]: or [\\\/]{2}[^\\\/]+[\\\/]+[^\\\/]+ with greedy runs
\* (what follows the group matches anything, so the first match stands)
deviceLen(s) ==
    IF Len(s) >= 2 /\ s[1] \in Letters /\ s[2] = COLON THEN 2
    ELSE IF Len(s) >= 3 /\ s[1] \in WinSeps /\ s[2] \in WinSeps
         THEN LET hostEnd == RunEnd(s, 3, WinSeps, TRUE)
                  sepEnd == RunEnd(s, hostEnd, WinSeps, FALSE)
                  shareEnd == RunEnd(s, sepEnd, WinSeps, TRUE)
              IN  IF hostEnd > 3 /\ sepEnd > hostEnd /\ shareEnd > sepEnd
                  THEN shareEnd - 1
                  ELSE 0
         ELSE 0

\* splitDeviceRe.exec(s): [device, slash, tail]
splitDeviceRe(s) ==
    LET groups(d) ==
            LET sl == IF Len(s) > d /\ s[d + 1] \in WinSeps THEN 1 ELSE 0
            IN  [device |-> SubSeq(s, 1, d),
                 slash  |-> SubSeq(s, d + 1, d + sl),
                 tail   |-> SubSeq(s, d + sl + 1, Len(s))]
    IN  groups(deviceLen(s))

-----------------------------------------------------------------------------
(* The Windows driver *)

win32_separator == <<BS>>
win32_delimiter == <<";">>

win32_splitPath(filename) ==
    LET parts(result, result2) ==
            <<result.device \o result.slash,
              result2.dir, result2.base, result2.ext>>
        tailOf(result) == parts(result, matchTail(result.tail, WinSeps))
    IN  tailOf(splitDeviceRe(filename))

win32_statPath(path) ==
    LET stat(result) ==
            LET device == result.device
                isUnc == device # <<>> /\ device[2] # COLON
            IN  [device |-> device,
                 isUnc |-> isUnc,
                 isAbsolute |-> isUnc \/ result.slash # <<>>,
                 tail |-> result.tail]
    IN  stat(splitDeviceRe(path))

RECURSIVE collapseSeps(_, _, _)
\* s.replace(/[\\\/]+/g, "\\")
collapseSeps(s, i, acc) ==
    IF i > Len(s) THEN acc
    ELSE IF s[i] \in WinSeps
         THEN IF i > 1 /\ s[i - 1] \in WinSeps
              THEN collapseSeps(s, i + 1, acc)
              ELSE collapseSeps(s, i + 1, Append(acc, BS))
         ELSE collapseSeps(s, i + 1, Append(acc, s[i]))

normalizeUNCRoot(device) ==
    LET stripped == sliceFrom(device, RunEnd(device, 1, WinSeps, FALSE) - 1)
    IN  <<BS, BS>> \o collapseSeps(stripped, 1, <<>>)

\* env[key], with undefined for a key that is not set
envGet(wenv, key) == IF key \in DOMAIN wenv THEN Str(wenv[key]) ELSE Undefined

\* the tail of resolve, after its loop
win32_resolveEnd(resolvedDevice, resolvedTail, resolvedAbsolute, isUnc) ==
    LET device == IF isUnc THEN normalizeUNCRoot(resolvedDevice)
                  ELSE resolvedDevice
        tail == joinWith(normalizeArray(splitRuns(resolvedTail, WinSeps),
                                        ~resolvedAbsolute), <<BS>>)
        orDot(out) == Ok(IF out = <<>> THEN <<DOT>> ELSE out)
    IN  orDot(device \o (IF resolvedAbsolute THEN <<BS>> ELSE <<>>) \o tail)

RECURSIVE win32_resolveLoopCaseSensitive(_, _, _, _, _, _, _, _)
\* a faulty variant of win32_resolveLoop: the devices of the candidates are
\* compared as they are written
win32_resolveLoopCaseSensitive(paths, wcwd, wenv, i, rDevice, rTail, rAbsolute, isUnc) ==
    IF i < 0 THEN win32_resolveEnd(rDevice, rTail, rAbsolute, isUnc)
    ELSE
    LET found == envGet(wenv, <<"=">> \o rDevice)
        path == IF i >= 1 THEN paths[i]
                ELSE IF rDevice = <<>> THEN Str(wcwd)
                ELSE IF found.v = <<>>
                        \/ toLowerCase(substr0(found.v, 3))
                             # toLowerCase(rDevice) \o <<BS>>
                     THEN Str(rDevice \o <<BS>>)
                     ELSE found
    IN  IF ~isString(path) THEN TypeError
        ELSE IF path.v = <<>>
        THEN win32_resolveLoopCaseSensitive(paths, wcwd, wenv, i - 1, rDevice,
                                            rTail, rAbsolute, isUnc)
        ELSE
        LET take(result) ==
                LET device == result.device
                    nDevice == IF rDevice = <<>> THEN device ELSE rDevice
                    nTail == IF ~rAbsolute THEN result.tail \o <<BS>> \o rTail
                             ELSE rTail
                    nAbsolute == IF ~rAbsolute THEN result.isAbsolute
                                 ELSE rAbsolute
                IN  IF device # <<>> /\ rDevice # <<>>
                       /\ device # rDevice
                    THEN win32_resolveLoopCaseSensitive(
                             paths, wcwd, wenv, i - 1, rDevice, rTail,
                             rAbsolute, result.isUnc)
                    ELSE IF nDevice # <<>> /\ nAbsolute
                    THEN win32_resolveEnd(nDevice, nTail, nAbsolute,
                                          result.isUnc)
                    ELSE win32_resolveLoopCaseSensitive(
                             paths, wcwd, wenv, i - 1, nDevice, nTail,
                             nAbsolute, result.isUnc)
        IN  take(win32_statPath(path.v))

RECURSIVE win32_resolveLoop(_, _, _, _, _, _, _, _)
\* one iteration of the loop of resolve; i = 0 is the iteration i = -1 of the
\* code, which takes cwd or the drive's own working directory
win32_resolveLoop(paths, wcwd, wenv, i, rDevice, rTail, rAbsolute, isUnc) ==
    IF i < 0 THEN win32_resolveEnd(rDevice, rTail, rAbsolute, isUnc)
    ELSE
    LET found == envGet(wenv, <<"=">> \o rDevice)
        path == IF i >= 1 THEN paths[i]
                ELSE IF rDevice = <<>> THEN Str(wcwd)
                ELSE IF found.v = <<>>
                        \/ toLowerCase(substr0(found.v, 3))
                             # toLowerCase(rDevice) \o <<BS>>
                     THEN Str(rDevice \o <<BS>>)
                     ELSE found
    IN  IF ~isString(path) THEN TypeError
        ELSE IF path.v = <<>>
        THEN win32_resolveLoop(paths, wcwd, wenv, i - 1,
                               rDevice, rTail, rAbsolute, isUnc)
        ELSE
        LET take(result) ==
                LET device == result.device
                    nDevice == IF rDevice = <<>> THEN device ELSE rDevice
                    nTail == IF ~rAbsolute THEN result.tail \o <<BS>> \o rTail
                             ELSE rTail
                    nAbsolute == IF ~rAbsolute THEN result.isAbsolute
                                 ELSE rAbsolute
                IN  IF device # <<>> /\ rDevice # <<>>
                       /\ toLowerCase(device) # toLowerCase(rDevice)
                    THEN win32_resolveLoop(paths, wcwd, wenv, i - 1, rDevice,
                                           rTail, rAbsolute, result.isUnc)
                    ELSE IF nDevice # <<>> /\ nAbsolute
                    THEN win32_resolveEnd(nDevice, nTail, nAbsolute,
                                          result.isUnc)
                    ELSE win32_resolveLoop(paths, wcwd, wenv, i - 1, nDevice,
                                           nTail, nAbsolute, result.isUnc)
        IN  take(win32_statPath(path.v))

\* a faulty variant of win32_resolve: cwd is considered after the arguments
\* whether or not they name a device
win32_resolveCwdFirst(paths, wcwd, wenv) ==
    win32_resolveLoop(<<Str(wcwd)>> \o paths, wcwd, wenv, Len(paths) + 1,
                      <<>>, <<>>, FALSE, FALSE)

\* resolve(...paths); paths holds values that may not be strings
win32_resolve(paths, wcwd, wenv) ==
    win32_resolveLoop(paths, wcwd, wenv, Len(paths), <<>>, <<>>, FALSE, FALSE)

win32_normalize(path) ==
    LET build(result, tail1) ==
            LET isAbs == result.isAbsolute
                trailingSlash == result.tail # <<>>
                                 /\ result.tail[Len(result.tail)] \in WinSeps
                tail2 == IF tail1 = <<>> /\ ~isAbs THEN <<DOT>> ELSE tail1
                tail3 == IF tail2 # <<>> /\ trailingSlash THEN tail2 \o <<BS>>
                         ELSE tail2
                device == IF result.isUnc THEN normalizeUNCRoot(result.device)
                          ELSE result.device
            IN  device \o (IF isAbs THEN <<BS>> ELSE <<>>) \o tail3
        tailOf(result) ==
            build(result, joinWith(normalizeArray(splitRuns(result.tail, WinSeps),
                                                  ~result.isAbsolute), <<BS>>))
    IN  tailOf(win32_statPath(path))

win32_isAbsolute(path) == win32_statPath(path).isAbsolute

\* paths.filter(...) of join: the non-empty arguments, in order
RECURSIVE nonEmpty(_, _, _)
nonEmpty(paths, i, acc) ==
    IF i > Len(paths) THEN acc
    ELSE nonEmpty(paths, i + 1,
                  IF paths[i].v # <<>> THEN Append(acc, paths[i].v) ELSE acc)

\* /^[\\\/]{2}[^\\\/]/.test(s)
startsLikeUNC(s) ==
    Len(s) >= 3 /\ s[1] \in WinSeps /\ s[2] \in WinSeps /\ s[3] \notin WinSeps

\* s.replace(/^[\\\/]{2,}/, "\\")
squashLeadingSeps(s) ==
    LET e == RunEnd(s, 1, WinSeps, FALSE)
    IN  IF e >= 3 THEN <<BS>> \o sliceFrom(s, e - 1) ELSE s

\* a faulty variant of win32_join: the leading separators are always squashed
win32_joinAlwaysSquashes(paths) ==
    IF \E k \in 1..Len(paths) : ~isString(paths[k]) THEN TypeError
    ELSE Ok(win32_normalize(
                squashLeadingSeps(joinWith(nonEmpty(paths, 1, <<>>), <<BS>>))))

\* join(...paths); the filter callback throws at the first non-string
win32_join(paths) ==
    IF \E k \in 1..Len(paths) : ~isString(paths[k]) THEN TypeError
    ELSE LET \* paths[0] of an empty array is undefined, which the pattern
             \* tests as the text "undefined"
             first(kept) == IF kept = <<>>
                            THEN <<"u", "n", "d", "e", "f", "i", "n", "e", "d">>
                            ELSE kept[1]
             squash(kept, joined) == IF ~startsLikeUNC(first(kept))
                                     THEN squashLeadingSeps(joined)
                                     ELSE joined
             joinKept(kept) == squash(kept, joinWith(kept, <<BS>>))
         IN  Ok(win32_normalize(joinKept(nonEmpty(paths, 1, <<>>))))

\* the index (0-based) of the first difference of two arrays, or the length
\* of the shorter: samePartsLength of relative
samePartsLength(a, b) ==
    LET length == IF Len(a) < Len(b) THEN Len(a) ELSE Len(b)
        diff == {i \in 1..length : a[i] # b[i]}
    IN  IF diff = {} THEN length
        ELSE (CHOOSE i \in diff : \A j \in diff : i <= j) - 1

\* outputParts of relative: one '..' per part of from beyond `same`, then the
\* parts of to beyond `same`
outputParts(nFrom, toParts, same) ==
    [i \in 1..(nFrom - same) |-> <<DOT, DOT>>] \o sliceFrom(toParts, same)

\* a faulty variant of win32_relative: the parts are compared in their own case
win32_relativeCaseSensitive(from, to, wcwd, wenv) ==
    LET output(toParts, fromParts, same) ==
            joinWith(outputParts(Len(fromParts), toParts, same), <<BS>>)
        compare(rTo, fromParts, toParts) ==
            IF samePartsLength(fromParts, toParts) = 0 THEN rTo
            ELSE output(toParts, fromParts, samePartsLength(fromParts, toParts))
        split(rFrom, rTo) ==
            compare(rTo, trimArray(splitChar(rFrom, BS)),
                    trimArray(splitChar(rTo, BS)))
    IN  split(win32_resolve(<<Str(from)>>, wcwd, wenv).val,
              win32_resolve(<<Str(to)>>, wcwd, wenv).val)

\* a faulty variant of win32_relative: with nothing shared the argument is returned
win32_relativeReturnsArgument(from, to, wcwd, wenv) ==
    LET output(toParts, lowerFromParts, same) ==
            joinWith(outputParts(Len(lowerFromParts), toParts, same), <<BS>>)
        compare(rTo, toParts, lowerFromParts, lowerToParts) ==
            IF samePartsLength(lowerFromParts, lowerToParts) = 0 THEN to
            ELSE output(toParts, lowerFromParts,
                        samePartsLength(lowerFromParts, lowerToParts))
        split(rFrom, rTo) ==
            compare(rTo, trimArray(splitChar(rTo, BS)),
                    trimArray(splitChar(toLowerCase(rFrom), BS)),
                    trimArray(splitChar(toLowerCase(rTo), BS)))
    IN  split(win32_resolve(<<Str(from)>>, wcwd, wenv).val,
              win32_resolve(<<Str(to)>>, wcwd, wenv).val)

win32_relative(from, to, wcwd, wenv) ==
    LET output(toParts, lowerFromParts, same) ==
            joinWith(outputParts(Len(lowerFromParts), toParts, same), <<BS>>)
        compare(rTo, toParts, lowerFromParts, lowerToParts) ==
            IF samePartsLength(lowerFromParts, lowerToParts) = 0 THEN rTo
            ELSE output(toParts, lowerFromParts,
                        samePartsLength(lowerFromParts, lowerToParts))
        split(rFrom, rTo) ==
            compare(rTo, trimArray(splitChar(rTo, BS)),
                    trimArray(splitChar(toLowerCase(rFrom), BS)),
                    trimArray(splitChar(toLowerCase(rTo), BS)))
    IN  split(win32_resolve(<<Str(from)>>, wcwd, wenv).val,
              win32_resolve(<<Str(to)>>, wcwd, wenv).val)

win32_dirname(path) ==
    LET dirOf(result) ==
            LET root == result[1]
                dir == result[2]
            IN  IF root = <<>> /\ dir = <<>> THEN <<DOT>>
                ELSE root \o (IF dir # <<>> THEN dropLast(dir) ELSE dir)
    IN  dirOf(win32_splitPath(path))

\* f.substr(-1 * n): the last n characters, all of f when n >= f.length
lastChars(f, n) == IF n >= Len(f) THEN f ELSE SubSeq(f, Len(f) - n + 1, Len(f))

win32_basename(path, ext) ==
    LET strip(f) ==
            IF ext # <<>> /\ toLowerCase(lastChars(f, Len(ext))) = toLowerCase(ext)
            THEN SubSeq(f, 1, Len(f) - Len(ext))
            ELSE f
    IN  strip(win32_splitPath(path)[3])

\* a faulty variant of win32_extname: the extension starts at the first dot
\* of the base name after its first character
win32_extnameFromFirstDot(path) ==
    LET fromDot(base) ==
            LET dots == {i \in 2..Len(base) : base[i] = DOT}
            IN  IF dots = {} THEN <<>>
                ELSE sliceFrom(base, (CHOOSE i \in dots :
                                         \A j \in dots : i <= j) - 1)
    IN  fromDot(win32_splitPath(path)[3])

win32_extname(path) == win32_splitPath(path)[4]

\* format(pathObject) on a PathInfo object
win32_format(pathObject) ==
    LET dir == pathObject.dir
        base == pathObject.base
    IN  IF dir = <<>> THEN base
        ELSE IF dir[Len(dir)] = BS THEN dir \o base
        ELSE dir \o win32_separator \o base

\* a faulty variant of win32_parse: name keeps the dot of the extension
win32_parseNameKeepsDot(pathString) ==
    LET info(allParts) ==
            [root |-> allParts[1],
             dir  |-> allParts[1] \o dropLast(allParts[2]),
             base |-> allParts[3],
             ext  |-> allParts[4],
             name |-> SubSeq(allParts[3], 1,
                             Len(allParts[3]) - Len(allParts[4])
                               + (IF allParts[4] # <<>> THEN 1 ELSE 0))]
    IN  info(win32_splitPath(pathString))

win32_parse(pathString) ==
    LET info(allParts) ==
            [root |-> allParts[1],
             dir  |-> allParts[1] \o dropLast(allParts[2]),
             base |-> allParts[3],
             ext  |-> allParts[4],
             name |-> SubSeq(allParts[3], 1,
                             Len(allParts[3]) - Len(allParts[4]))]
    IN  info(win32_splitPath(pathString))

-----------------------------------------------------------------------------
(* The POSIX driver *)

posix_separator == <<FS>>
posix_delimiter == <<COLON>>

\* splitPathRe.exec(filename).slice(1): the greedy (\/?|) takes a leading
\* slash whenever there is one, because the rest of the pattern matches
\* every string
posix_splitPath(filename) ==
    LET root == IF filename # <<>> /\ filename[1] = FS THEN <<FS>> ELSE <<>>
        parts(rest) == <<root, rest.dir, rest.base, rest.ext>>
    IN  parts(matchTail(sliceFrom(filename, Len(root)), PosixSeps))

posix_resolveEnd(resolvedPath, resolvedAbsolute) ==
    LET path == joinWith(normalizeArray(splitChar(resolvedPath, FS),
                                        ~resolvedAbsolute), <<FS>>)
        orDot(out) == Ok(IF out = <<>> THEN <<DOT>> ELSE out)
    IN  orDot((IF resolvedAbsolute THEN <<FS>> ELSE <<>>) \o path)

RECURSIVE posix_resolveLoop(_, _, _, _, _)
\* one iteration of the loop of resolve; i = 0 is the iteration i = -1 of the
\* code, which takes cwd
posix_resolveLoop(paths, pcwd, i, resolvedPath, resolvedAbsolute) ==
    IF i < 0 \/ resolvedAbsolute
    THEN posix_resolveEnd(resolvedPath, resolvedAbsolute)
    ELSE LET path == IF i >= 1 THEN paths[i] ELSE Str(pcwd) IN
         IF ~isString(path) THEN TypeError
         ELSE IF path.v = <<>>
              THEN posix_resolveLoop(paths, pcwd, i - 1,
                                     resolvedPath, resolvedAbsolute)
              ELSE posix_resolveLoop(paths, pcwd, i - 1,
                                     path.v \o <<FS>> \o resolvedPath,
                                     path.v[1] = FS)

posix_resolve(paths, pcwd) ==
    posix_resolveLoop(paths, pcwd, Len(paths), <<>>, FALSE)

posix_isAbsolute(path) == path # <<>> /\ path[1] = FS

posix_normalize(path) ==
    LET isAbs == posix_isAbsolute(path)
        trailingSlash == path # <<>> /\ path[Len(path)] = FS
        build(path1) ==
            LET path2 == IF path1 = <<>> /\ ~isAbs THEN <<DOT>> ELSE path1
                path3 == IF path2 # <<>> /\ trailingSlash THEN path2 \o <<FS>>
                         ELSE path2
            IN  (IF isAbs THEN <<FS>> ELSE <<>>) \o path3
    IN  build(joinWith(normalizeArray(splitChar(path, FS), ~isAbs), <<FS>>))

RECURSIVE posix_joinLoop(_, _, _)
posix_joinLoop(paths, i, path) ==
    IF i > Len(paths) THEN Ok(posix_normalize(path))
    ELSE IF ~isString(paths[i]) THEN TypeError
    ELSE LET segment == paths[i].v IN
         posix_joinLoop(paths, i + 1,
                        IF segment = <<>> THEN path
                        ELSE IF path = <<>> THEN segment
                        ELSE path \o <<FS>> \o segment)

posix_join(paths) == posix_joinLoop(paths, 1, <<>>)

posix_relative(from, to, pcwd) ==
    LET rFrom == sliceFrom(posix_resolve(<<Str(from)>>, pcwd).val, 1)
        rTo == sliceFrom(posix_resolve(<<Str(to)>>, pcwd).val, 1)
        output(fromParts, toParts) ==
            joinWith(outputParts(Len(fromParts), toParts,
                                 samePartsLength(fromParts, toParts)), <<FS>>)
    IN  output(trimArray(splitChar(rFrom, FS)), trimArray(splitChar(rTo, FS)))

posix_dirname(path) ==
    LET dirOf(result) ==
            LET root == result[1]
                dir == result[2]
            IN  IF root = <<>> /\ dir = <<>> THEN <<DOT>>
                ELSE root \o (IF dir # <<>> THEN dropLast(dir) ELSE dir)
    IN  dirOf(posix_splitPath(path))

posix_basename(path, ext) ==
    LET strip(f) ==
            IF ext # <<>> /\ lastChars(f, Len(ext)) = ext
            THEN SubSeq(f, 1, Len(f) - Len(ext))
            ELSE f
    IN  strip(posix_splitPath(path)[3])

posix_extname(path) == posix_splitPath(path)[4]

posix_format(pathObject) ==
    LET dir == IF pathObject.dir # <<>> THEN pathObject.dir \o posix_separator
               ELSE <<>>
    IN  dir \o pathObject.base

posix_parse(pathString) ==
    LET info(allParts) ==
            [root |-> allParts[1],
             dir  |-> allParts[1] \o dropLast(allParts[2]),
             base |-> allParts[3],
             ext  |-> allParts[4],
             name |-> SubSeq(allParts[3], 1,
                             Len(allParts[3]) - Len(allParts[4]))]
    IN  info(posix_splitPath(pathString))

-----------------------------------------------------------------------------
(* The PathDriver contract: a driver's operation by name *)

Drivers == {"win32", "posix"}

drv_separator(d) == IF d = "win32" THEN win32_separator ELSE posix_separator
drv_delimiter(d) == IF d = "win32" THEN win32_delimiter ELSE posix_delimiter
drv_join(d, paths) == IF d = "win32" THEN win32_join(paths) ELSE posix_join(paths)
drv_normalize(d, path) ==
    IF d = "win32" THEN win32_normalize(path) ELSE posix_normalize(path)
drv_isAbsolute(d, path) ==
    IF d = "win32" THEN win32_isAbsolute(path) ELSE posix_isAbsolute(path)
drv_resolve(d, paths, cw, en) ==
    IF d = "win32" THEN win32_resolve(paths, cw[d], en)
    ELSE posix_resolve(paths, cw[d])
drv_relative(d, from, to, cw, en) ==
    IF d = "win32" THEN win32_relative(from, to, cw[d], en)
    ELSE posix_relative(from, to, cw[d])
drv_dirname(d, path) ==
    IF d = "win32" THEN win32_dirname(path) ELSE posix_dirname(path)
drv_extname(d, path) ==
    IF d = "win32" THEN win32_extname(path) ELSE posix_extname(path)
drv_basename(d, path, ext) ==
    IF d = "win32" THEN win32_basename(path, ext) ELSE posix_basename(path, ext)
drv_format(d, info) ==
    IF d = "win32" THEN win32_format(info) ELSE posix_format(info)
drv_parse(d, path) ==
    IF d = "win32" THEN win32_parse(path) ELSE posix_parse(path)

-----------------------------------------------------------------------------
(* The Path facade: every method reads this.Driver and forwards to it.  With *)
(* no driver assigned, this.Driver is undefined and the property access      *)
(* throws a TypeError.                                                       *)

\* the i-th (1-based) argument of a JavaScript call: undefined when missing
argOf(args, i) == IF i <= Len(args) THEN args[i] ELSE Undefined

Path_separator(D) == IF D = "unassigned" THEN TypeError ELSE Ok(drv_separator(D))
Path_delimiter(D) == IF D = "unassigned" THEN TypeError ELSE Ok(drv_delimiter(D))
Path_join(D, paths) == IF D = "unassigned" THEN TypeError ELSE drv_join(D, paths)
Path_normalize(D, path) ==
    IF D = "unassigned" THEN TypeError ELSE Ok(drv_normalize(D, path))
Path_isAbsolute(D, path) ==
    IF D = "unassigned" THEN TypeError ELSE Ok(drv_isAbsolute(D, path))

\* resolve(from, to) forwards exactly its two named parameters
Path_resolve(D, args, cw, en) ==
    IF D = "unassigned" THEN TypeError
    ELSE drv_resolve(D, <<argOf(args, 1), argOf(args, 2)>>, cw, en)

Path_relative(D, from, to, cw, en) ==
    IF D = "unassigned" THEN TypeError ELSE Ok(drv_relative(D, from, to, cw, en))
Path_dirname(D, path) ==
    IF D = "unassigned" THEN TypeError ELSE Ok(drv_dirname(D, path))
Path_extname(D, path) ==
    IF D = "unassigned" THEN TypeError ELSE Ok(drv_extname(D, path))
Path_basename(D, path, ext) ==
    IF D = "unassigned" THEN TypeError ELSE Ok(drv_basename(D, path, ext))
Path_format(D, info) ==
    IF D = "unassigned" THEN TypeError ELSE Ok(drv_format(D, info))
Path_parse(D, path) ==
    IF D = "unassigned" THEN TypeError ELSE Ok(drv_parse(D, path))

-----------------------------------------------------------------------------
(* Inputs *)

\* every string over cs of length at most n
StringsOver(cs, n) == UNION {[1..k -> cs] : k \in 0..n}

\* every list over vs of length at most n
ListsOver(vs, n) == UNION {[1..k -> vs] : k \in 0..n}

\* the input of a one-path operation
PathStrings == StringsOver(Chars, MaxLen)

\* the paths of the examples of extname, /a/b.txt and /a/b, in the letters
\* of Chars
ExtnameExamples ==
    { <<FS, "c", FS, "C", DOT, "c", "C", "c">>,
      <<FS, "c", FS, "C">> }

\* one argument of a two-path operation
ArgStrings == StringsOver(Chars, MaxArgLen)

\* the paths of the examples of relative: a lower-case drive path, the same
\* path in another case with one more segment, a path on another drive, and
\* rooted paths without a drive
RelativeExamples ==
    {<<"c", COLON, BS, "c">>, <<"C", COLON, BS, "c", BS, "C">>,
     <<"C", COLON, BS, "C">>, <<"d", COLON, FS, "c">>, <<FS, "c", FS, "C">>,
     <<FS, "c", FS, "c">>}

RelativeStrings == ArgStrings \cup RelativeExamples

\* the characters of an argument of join
JoinChars == {"c", "C", DOT, FS, BS}

\* a value that may or may not be a string, the strings drawn from ss
Values(ss) == {Num42} \cup {Str(x) : x \in ss}

\* the argument lists of join: up to two short values, or one more character
\* in a first argument that starts with a separator, followed by up to two
\* one-character values
JoinArgs ==
    ListsOver(Values(StringsOver(JoinChars, MaxArgLen)), 2)
    \cup {<<Str(a)>> \o r :
            a \in {x \in [1..(MaxArgLen + 1) -> JoinChars] : x[1] \in WinSeps},
            r \in ListsOver(Values(StringsOver(JoinChars, 1)), 2)}

\* the strings the facade is called with in the full state machine
SmallStrings == StringsOver(Chars, MaxSmall)

\* the argument lists of resolve: none to three values
ResolveArgs == ListsOver(Values(StringsOver({"c", COLON, FS}, MaxSmall)), 3)

\* the segments handed to normalizeArray
Segments == {<<>>, <<DOT>>, <<DOT, DOT>>, <<"c">>, <<"C">>}

\* the working directories the host may supply
CwdsOf(d) ==
    IF d = "win32" THEN {<<>>, <<"c", COLON, BS, "c">>}
    ELSE {<<>>, <<FS, "c">>}

\* the environments the host may supply: the drive's own working directory
EmptyEnv == [k \in {} |-> <<>>]
Envs == {EmptyEnv, [k \in {<<"=", "c", COLON>>} |-> <<"c", COLON, BS, "C">>]}

\* the characters of an argument of resolve on Windows
ResolveChars == {"c", "C", "d", COLON, BS}

\* arguments of resolve that name a UNC root or a directory of a drive
ResolveExamples ==
    { <<FS, FS, "c", FS, "C">>,
      <<BS, BS, "C", BS, "c", BS, "d">>,
      <<"C", COLON, "c">>,
      <<"d", COLON, BS, "c">> }

ResolveStrings == StringsOver(ResolveChars, MaxArgLen) \cup ResolveExamples

\* resolve(from, to): the two arguments the facade forwards
ResolvePairs == {<<Str(a), Str(b)>> : a \in ResolveStrings, b \in ResolveStrings}

\* working directories of the Windows driver: none, absolute on a drive,
\* relative on a drive
ResolveCwds == CwdsOf("win32") \cup {<<"c", COLON, "C">>}

\* environments holding a working directory of drive c: on the drive, on
\* the drive in the other letter case, on another drive
ResolveEnvs ==
    Envs \cup { [k \in {<<"=", "c", COLON>>} |-> <<"C", COLON, BS, "d">>],
                [k \in {<<"=", "c", COLON>>} |-> <<"d", COLON, BS, "c">>] }

-----------------------------------------------------------------------------
(* The state machine: the host configures the drivers and the facade, and    *)
(* calls the facade; pc = "returned" holds the last call and its result      *)
(* until the caller takes it.                                                *)

NoCall == [op |-> "none", params |-> <<>>]
NoResult == [call |-> "none", threw |-> FALSE, val |-> <<>>]

Init ==
    /\ Driver = "unassigned"
    /\ cwd = [d \in Drivers |-> <<>>]
    /\ env = EmptyEnv
    /\ pc = "idle"
    /\ call = NoCall
    /\ ret = NoResult

\* Path.Driver = d
AssignDriver(d) ==
    /\ pc = "idle"
    /\ Driver' = d
    /\ UNCHANGED <<cwd, env, pc, call, ret>>

\* the host writes a driver's cwd
SetCwd(d, c) ==
    /\ pc = "idle"
    /\ cwd' = [cwd EXCEPT ![d] = c]
    /\ UNCHANGED <<Driver, env, pc, call, ret>>

\* the host writes the Windows driver's env
SetEnv(e) ==
    /\ pc = "idle"
    /\ env' = e
    /\ UNCHANGED <<Driver, cwd, pc, call, ret>>

\* a call runs to completion: the operations are synchronous.  ret holds
\* the operation it is the outcome of, whether the call threw and, in val,
\* the list of what it returned: the one value, or nothing after a throw
Returns(op, args, result) ==
    /\ pc' = "returned"
    /\ call' = [op |-> op, params |-> args]
    /\ ret' = [call |-> op,
               threw |-> result.threw,
               val |-> IF result.threw THEN <<>> ELSE <<result.val>>]
    /\ UNCHANGED <<Driver, cwd, env>>

Separator ==
    /\ pc = "idle"
    /\ Returns("separator", <<>>, Path_separator(Driver))

Delimiter ==
    /\ pc = "idle"
    /\ Returns("delimiter", <<>>, Path_delimiter(Driver))

\* the operations below are called with arguments drawn from the given set

Join(argLists) ==
    /\ pc = "idle"
    /\ \E args \in argLists : Returns("join", args, Path_join(Driver, args))

Normalize(paths) ==
    /\ pc = "idle"
    /\ \E p \in paths : Returns("normalize", <<p>>, Path_normalize(Driver, p))

IsAbsolute(paths) ==
    /\ pc = "idle"
    /\ \E p \in paths : Returns("isAbsolute", <<p>>, Path_isAbsolute(Driver, p))

Resolve(argLists) ==
    /\ pc = "idle"
    /\ \E args \in argLists :
           Returns("resolve", args, Path_resolve(Driver, args, cwd, env))

Relative(paths) ==
    /\ pc = "idle"
    /\ \E from \in paths : \E to \in paths :
           Returns("relative", <<from, to>>,
                   Path_relative(Driver, from, to, cwd, env))

Dirname(paths) ==
    /\ pc = "idle"
    /\ \E p \in paths : Returns("dirname", <<p>>, Path_dirname(Driver, p))

Extname(paths) ==
    /\ pc = "idle"
    /\ \E p \in paths : Returns("extname", <<p>>, Path_extname(Driver, p))

Basename(paths) ==
    /\ pc = "idle"
    /\ \E p \in paths : \E ext \in paths :
           Returns("basename", <<p, ext>>, Path_basename(Driver, p, ext))

Parse(paths) ==
    /\ pc = "idle"
    /\ \E p \in paths : Returns("parse", <<p>>, Path_parse(Driver, p))

\* format is given the PathInfo that parse made of a path
Format(paths) ==
    /\ pc = "idle"
    /\ Driver \in Drivers
    /\ \E p \in paths :
           Returns("format", <<drv_parse(Driver, p)>>,
                   Path_format(Driver, drv_parse(Driver, p)))

\* the helper normalizeArray, called on its own
NormalizeArray(partLists) ==
    /\ pc = "idle"
    /\ \E parts \in partLists : \E allowAboveRoot \in BOOLEAN :
           Returns("normalizeArray", <<parts, allowAboveRoot>>,
                   Ok(normalizeArray(parts, allowAboveRoot)))

\* the caller takes the result
Return ==
    /\ pc = "returned"
    /\ pc' = "idle"
    /\ call' = NoCall
    /\ ret' = NoResult
    /\ UNCHANGED <<Driver, cwd, env>>

\* the full machine: every configuration, the facade called with short inputs
Next ==
    \/ \E d \in Drivers : AssignDriver(d)
    \/ \E d \in Drivers : \E c \in CwdsOf(d) : SetCwd(d, c)
    \/ \E e \in Envs : SetEnv(e)
    \/ Separator
    \/ Delimiter
    \/ Join(ListsOver(Values(SmallStrings), 2))
    \/ Normalize(SmallStrings)
    \/ IsAbsolute(SmallStrings)
    \/ Resolve(ResolveArgs)
    \/ Relative(SmallStrings)
    \/ Dirname(SmallStrings)
    \/ Extname(SmallStrings)
    \/ Basename(SmallStrings)
    \/ Format(SmallStrings)
    \/ Parse(SmallStrings)
    \/ Return

Spec == Init /\ [][Next]_vars

\* a driver is assigned and the host has not set cwd or env
InitAssigned ==
    /\ Driver \in Drivers
    /\ cwd = [d \in Drivers |-> <<>>]
    /\ env = EmptyEnv
    /\ pc = "idle"
    /\ call = NoCall
    /\ ret = NoResult

\* the one-path operations on every path string
NextPaths ==
    \/ Normalize(PathStrings)
    \/ Parse(PathStrings)
    \/ Format(PathStrings)
    \/ Extname(PathStrings \cup ExtnameExamples)
    \/ Return

SpecPaths == InitAssigned /\ [][NextPaths]_vars

\* the Windows driver is assigned
InitWin32 ==
    /\ Driver = "win32"
    /\ cwd = [d \in Drivers |-> <<>>]
    /\ env = EmptyEnv
    /\ pc = "idle"
    /\ call = NoCall
    /\ ret = NoResult

\* join on every argument list
NextJoin ==
    \/ Join(JoinArgs)
    \/ Return

SpecJoin == InitWin32 /\ [][NextJoin]_vars

\* Windows relative on every pair of paths, under every working directory
\* and environment
NextRelative ==
    \/ \E c \in CwdsOf("win32") : SetCwd("win32", c)
    \/ \E e \in Envs : SetEnv(e)
    \/ Relative(RelativeStrings)
    \/ Return

SpecRelative == InitWin32 /\ [][NextRelative]_vars

\* resolve on the Windows driver under every working directory and env
NextResolve ==
    \/ \E c \in ResolveCwds : SetCwd("win32", c)
    \/ \E e \in ResolveEnvs : SetEnv(e)
    \/ Resolve(ResolvePairs)
    \/ Return

SpecResolve == InitWin32 /\ [][NextResolve]_vars

\* normalizeArray on every segment list
NextArray ==
    \/ NormalizeArray(ListsOver(Segments, MaxParts))
    \/ Return

SpecArray == InitAssigned /\ [][NextArray]_vars

-----------------------------------------------------------------------------
(* What the claims speak of *)

\* the operation op has returned a value
Returned(op) == pc = "returned" /\ call.op = op /\ ~ret.threw

\* the value returned
Value == ret.val[1]

\* s without one trailing separator of driver d
withoutTrailingSep(d, s) ==
    IF s # <<>> /\ s[Len(s)] \in (IF d = "win32" THEN WinSeps ELSE PosixSeps)
    THEN dropLast(s) ELSE s

\* the non-empty pieces of s between the characters of seps
Pieces(s, seps) == SelectSeq(splitRuns(s, seps), LAMBDA x : x # <<>>)

\* the length of the longest common prefix of two lists
CommonPrefix(a, b) ==
    LET shorter == IF Len(a) < Len(b) THEN Len(a) ELSE Len(b)
        same == {k \in 0..shorter : \A i \in 1..k : a[i] = b[i]}
    IN  CHOOSE k \in same : \A j \in same : j <= k

\* n copies of '..' followed by the elements of t after the first k, joined
ClimbThenDescend(n, t, k, sep) ==
    joinWith([i \in 1..n |-> <<DOT, DOT>>] \o SubSeq(t, k + 1, Len(t)), sep)

-----------------------------------------------------------------------------
(* C1 *)

\* C1: normalize is idempotent on both drivers: normalizing the string that
\* normalize returned gives that string again.
C1_NormalizeIdempotent ==
    (Returned("normalize") /\ Driver \in Drivers)
        => drv_normalize(Driver, Value) = Value

-----------------------------------------------------------------------------
(* C2 *)

\* C2: for every non-empty p, format(parse(p)) is equivalent to normalize(p):
\* their normal forms agree up to a trailing separator, and format(parse(p))
\* is absolute exactly when p is.
C2_FormatParseRoundTrip ==
    (Returned("parse") /\ Driver \in Drivers /\ call.params[1] # <<>>)
        => LET p == call.params[1]
               f == drv_format(Driver, Value)
           IN  /\ withoutTrailingSep(Driver, drv_normalize(Driver, f))
                    = withoutTrailingSep(Driver, drv_normalize(Driver, p))
               /\ drv_isAbsolute(Driver, f) = drv_isAbsolute(Driver, p)

-----------------------------------------------------------------------------
(* C3 *)

\* C3: the PathInfo that parse returns has base = name + ext, and ext is empty
\* or begins with a dot, on both drivers.
C3_BaseIsNamePlusExt ==
    Returned("parse")
        => /\ Value.base = Value.name \o Value.ext
           /\ Value.ext = <<>> \/ Value.ext[1] = DOT

\* parse has split a base into a non-empty name and a non-empty extension
C3_Witness ==
    /\ Returned("parse")
    /\ Value.name # <<>>
    /\ Len(Value.ext) > 1

-----------------------------------------------------------------------------
(* C4 *)

\* the strings join was called with that are not empty, and their joining
JoinKept == nonEmpty(call.params, 1, <<>>)
JoinPieces == Pieces(joinWith(JoinKept, <<BS>>), WinSeps)

\* join was called with a first non-empty argument that starts with exactly
\* two separators followed by a non-separator
JoinedUNC ==
    /\ Returned("join")
    /\ Driver = "win32"
    /\ JoinKept # <<>>
    /\ startsLikeUNC(JoinKept[1])

\* \\server\share
UNCRoot(server, share) == <<BS, BS>> \o server \o <<BS>> \o share

\* C4 as stated: Windows join("//server", "share") is exactly \\server\share
\* with nothing after the share name, and whenever the first non-empty
\* argument starts with two separators and a non-separator the result starts
\* with \\ and the server name.
C4_JoinUNCRootExact ==
    JoinedUNC =>
        /\ Len(call.params) = 2 /\ Len(JoinPieces) = 2
              /\ Pieces(call.params[1].v, WinSeps) = <<JoinPieces[1]>>
              /\ call.params[2].v = JoinPieces[2]
           => Value = UNCRoot(JoinPieces[1], JoinPieces[2])
        /\ substr0(Value, 2 + Len(JoinPieces[1])) = <<BS, BS>> \o JoinPieces[1]

\* C4 amended: when the first non-empty argument of Windows join starts with
\* two separators and a non-separator and the joined text has at least two
\* pieces, the result starts with \\server\share followed by a backslash, and
\* is exactly that when there are two pieces (join("//server", "share") is
\* \\server\share\); with a single piece the result is rooted by one
\* backslash and is no UNC path.
C4_JoinUNCRootTrailing ==
    JoinedUNC =>
        /\ Len(JoinPieces) >= 2 =>
              LET root == UNCRoot(JoinPieces[1], JoinPieces[2]) \o <<BS>>
              IN  /\ substr0(Value, Len(root)) = root
                  /\ Len(JoinPieces) = 2 => Value = root
        /\ Len(JoinPieces) = 1 =>
              /\ Value[1] = BS
              /\ Len(Value) > 1 => Value[2] # BS

\* join("//c", "C") has returned \\c\C\
C4_Witness ==
    /\ JoinedUNC
    /\ call.params = <<Str(<<FS, FS, "c">>), Str(<<"C">>)>>
    /\ Value = <<BS, BS, "c", BS, "C", BS>>

-----------------------------------------------------------------------------
(* C5 *)

\* C5: on both drivers resolve and join throw whenever one of their
\* arguments is not a string, whatever the other arguments are.
C5_NonStringAlwaysThrows ==
    (/\ pc = "returned"
     /\ call.op \in {"resolve", "join"}
     /\ Driver \in Drivers
     /\ \E k \in 1..Len(call.params) : ~isString(call.params[k]))
        => IF call.op = "resolve"
           THEN drv_resolve(Driver, call.params, cwd, env).threw
           ELSE drv_join(Driver, call.params).threw

-----------------------------------------------------------------------------
(* C6 *)

\* the paths Windows relative works on: resolve(from) and resolve(to)
ResolvedFrom == win32_resolve(<<Str(call.params[1])>>, cwd["win32"], env).val
ResolvedTo == win32_resolve(<<Str(call.params[2])>>, cwd["win32"], env).val

\* the number of leading segments the resolved paths share, letter case
\* ignored
SharedSegments ==
    CommonPrefix(Pieces(toLowerCase(ResolvedFrom), {BS}),
                 Pieces(toLowerCase(ResolvedTo), {BS}))

Win32Relative == Returned("relative") /\ Driver = "win32"

\* C6 as stated: when the resolved paths share no leading segment, Windows
\* relative returns the string passed as 'to'.
C6_ReturnsToArgument ==
    (Win32Relative /\ SharedSegments = 0) => Value = call.params[2]

\* C6 amended: when the resolved paths share no leading segment, Windows
\* relative returns the resolved 'to', that is resolve(to).
C6_ReturnsResolvedTo ==
    (Win32Relative /\ SharedSegments = 0) => Value = ResolvedTo

\* nothing is shared and what is returned is not the string passed as 'to'
C6_Witness ==
    /\ Win32Relative
    /\ SharedSegments = 0
    /\ call.params = <<<<"c", COLON, BS, "c">>, <<"d", COLON, FS, "c">>>>
    /\ Value = <<"d", COLON, BS, "c">>

-----------------------------------------------------------------------------
(* C7 *)

\* what the assigned driver's operation of the name called answers for the
\* argument list the facade was called with
DriverAnswer ==
    CASE call.op = "separator" -> Ok(drv_separator(Driver))
      [] call.op = "delimiter" -> Ok(drv_delimiter(Driver))
      [] call.op = "join" -> drv_join(Driver, call.params)
      [] call.op = "normalize" -> Ok(drv_normalize(Driver, call.params[1]))
      [] call.op = "isAbsolute" -> Ok(drv_isAbsolute(Driver, call.params[1]))
      [] call.op = "resolve" -> drv_resolve(Driver, call.params, cwd, env)
      [] call.op = "relative" ->
             Ok(drv_relative(Driver, call.params[1], call.params[2], cwd, env))
      [] call.op = "dirname" -> Ok(drv_dirname(Driver, call.params[1]))
      [] call.op = "extname" -> Ok(drv_extname(Driver, call.params[1]))
      [] call.op = "basename" ->
             Ok(drv_basename(Driver, call.params[1], call.params[2]))
      [] call.op = "format" -> Ok(drv_format(Driver, call.params[1]))
      [] call.op = "parse" -> Ok(drv_parse(Driver, call.params[1]))

\* C7: once a driver is assigned, every facade operation returns (or throws)
\* exactly what the assigned driver's operation of the same name does for
\* the same argument list.
C7_FacadeForwards ==
    (pc = "returned" /\ Driver \in Drivers)
        => /\ ret.threw = DriverAnswer.threw
           /\ ~ret.threw => Value = DriverAnswer.val

-----------------------------------------------------------------------------
(* C8 *)

\* C8: Windows relative compares the segments of the resolved paths without
\* regard to letter case and, with k > 0 shared segments, returns one '..'
\* per segment of resolved 'from' beyond k followed by the segments of
\* resolved 'to' beyond k in their own case, joined by a backslash; so paths
\* that differ only in case give the empty string, and from c:\c to C:\c\C
\* gives "C".
C8_RelativeCaseInsensitive ==
    Win32Relative =>
        LET fromParts == Pieces(ResolvedFrom, {BS})
            toParts == Pieces(ResolvedTo, {BS})
            k == CommonPrefix([i \in 1..Len(fromParts) |-> toLowerCase(fromParts[i])],
                              [i \in 1..Len(toParts) |-> toLowerCase(toParts[i])])
        IN  /\ k > 0 => Value = ClimbThenDescend(Len(fromParts) - k, toParts, k,
                                                 <<BS>>)
            /\ (toParts # <<>> /\ SharedSegments = Len(toParts)
                    /\ Len(fromParts) = Len(toParts)) => Value = <<>>
            /\ call.params = <<<<"c", COLON, BS, "c">>,
                               <<"C", COLON, BS, "c", BS, "C">>>>
                  => Value = <<"C">>

\* relative of c:\c to C:\c\C has returned "C": the segments c: and C: were
\* taken as equal
C8_Witness ==
    /\ Win32Relative
    /\ call.params = <<<<"c", COLON, BS, "c">>, <<"C", COLON, BS, "c", BS, "C">>>>
    /\ SharedSegments = 2
    /\ Value = <<"C">>

-----------------------------------------------------------------------------
(* C9 *)

DotDot == <<DOT, DOT>>

\* one step of the scan: what a segment does to the stack
ScanStep(stack, seg, allowAboveRoot) ==
    IF seg = <<>> \/ seg = <<DOT>> THEN stack
    ELSE IF seg # DotDot THEN Append(stack, seg)
    ELSE IF stack # <<>> /\ stack[Len(stack)] # DotDot THEN dropLast(stack)
    ELSE IF allowAboveRoot THEN Append(stack, DotDot)
    ELSE stack

\* the stack after a left-to-right scan of parts
Scan(parts, allowAboveRoot) ==
    LET after[n \in 0..Len(parts)] ==
            IF n = 0 THEN <<>>
            ELSE ScanStep(after[n - 1], parts[n], allowAboveRoot)
    IN  after[Len(parts)]

\* C9: normalizeArray(parts, allowAboveRoot) is the stack of a left-to-right
\* scan that skips empty and '.' segments, lets '..' pop a top that is not
\* '..', pushes '..' only when allowAboveRoot holds and nothing can be popped,
\* and pushes every other segment; the result has no empty or '.' segment, no
\* '..' when allowAboveRoot is false, and '..' only as a leading run when it
\* is true.
C9_NormalizeArrayShape ==
    Returned("normalizeArray") =>
        LET parts == call.params[1]
            allowAboveRoot == call.params[2]
        IN  /\ Value = Scan(parts, allowAboveRoot)
            /\ \A i \in 1..Len(Value) : Value[i] # <<>> /\ Value[i] # <<DOT>>
            /\ ~allowAboveRoot => \A i \in 1..Len(Value) : Value[i] # DotDot
            /\ \A i \in 2..Len(Value) :
                   Value[i] = DotDot => Value[i - 1] = DotDot
            /\ (parts = <<<<"c">>, <<DOT>>, <<"C">>, DotDot>> /\ ~allowAboveRoot)
                   => Value = <<<<"c">>>>
            /\ parts = <<DotDot, <<"c">>>>
                   => Value = IF allowAboveRoot THEN parts ELSE <<<<"c">>>>

\* normalizeArray(["c", ".", "C", ".."], false) has returned ["c"]
C9_Witness ==
    /\ Returned("normalizeArray")
    /\ call.params = <<<<<<"c">>, <<DOT>>, <<"C">>, DotDot>>, FALSE>>
    /\ Value = <<<<"c">>>>

-----------------------------------------------------------------------------
(* C10 *)

\* C10: POSIX relative(from, to), for every cwd: with F and T the non-empty
\* segments of resolve(from) and resolve(to) and k the length of their
\* longest common prefix, the result is |F| - k copies of '..' followed by
\* the segments of T beyond k, joined by '/'.
C10_PosixRelative ==
    (Returned("relative") /\ Driver = "posix") =>
        LET F == Pieces(posix_resolve(<<Str(call.params[1])>>, cwd["posix"]).val,
                        PosixSeps)
            T == Pieces(posix_resolve(<<Str(call.params[2])>>, cwd["posix"]).val,
                        PosixSeps)
            k == CommonPrefix(F, T)
        IN  Value = ClimbThenDescend(Len(F) - k, T, k, <<FS>>)

\* what a scan of candidate paths has found so far
NothingFound == [device |-> <<>>, tail |-> <<>>, absolute |-> FALSE, done |-> FALSE]

\* one more candidate is considered: an empty one, one after the scan has
\* stopped and one on another device contribute nothing
Consider(found, path) ==
    LET take(st) ==
            IF /\ st.device # <<>>
               /\ found.device # <<>>
               /\ toLowerCase(st.device) # toLowerCase(found.device)
            THEN found
            ELSE LET device == IF found.device = <<>> THEN st.device
                               ELSE found.device
                     absolute == found.absolute \/ st.isAbsolute
                 IN  [device   |-> device,
                      tail     |-> IF found.absolute THEN found.tail
                                   ELSE st.tail \o <<BS>> \o found.tail,
                      absolute |-> absolute,
                      done     |-> device # <<>> /\ absolute]
    IN  IF found.done \/ path = <<>> THEN found
        ELSE take(win32_statPath(path))

\* the candidates of a list are considered from first to last
RECURSIVE ConsiderAll(_, _, _)
ConsiderAll(found, cands, i) ==
    IF i > Len(cands) THEN found
    ELSE ConsiderAll(Consider(found, cands[i]), cands, i + 1)

\* the arguments of the call, last first
ArgumentsLastFirst == <<call.params[2].v, call.params[1].v>>

IsDriveLetter(device) == Len(device) = 2 /\ device[2] = COLON

\* the working directory of a drive: env["=X:"] when it starts with X:\,
\* whatever the letter case, and the root of the drive otherwise
DriveCwd(device) ==
    LET key == <<"=">> \o device
    IN  IF /\ key \in DOMAIN env
           /\ toLowerCase(substr0(env[key], 3)) = toLowerCase(device) \o <<BS>>
        THEN env[key]
        ELSE device \o <<BS>>

\* the text of what a scan has found
ResolvedText(found) ==
    LET device == IF found.device # <<>> /\ ~IsDriveLetter(found.device)
                  THEN normalizeUNCRoot(found.device)
                  ELSE found.device
        out == device \o (IF found.absolute THEN <<BS>> ELSE <<>>)
                 \o joinWith(normalizeArray(splitRuns(found.tail, WinSeps),
                                            ~found.absolute), <<BS>>)
    IN  IF out = <<>> THEN <<DOT>> ELSE out

\* C11 as stated: Windows resolve considers the arguments from last to first,
\* then cwd, then, when a drive letter X: but no absolute root has been found,
\* the working directory of the drive: env["=X:"] if it starts with X:\ in
\* any letter case, the root of the drive otherwise
C11_ArgumentsThenCwdThenDriveCwd ==
    (Returned("resolve") /\ Driver = "win32") =>
        LET thenDrive(found) ==
                IF IsDriveLetter(found.device) /\ ~found.absolute
                THEN Consider(found, DriveCwd(found.device))
                ELSE found
        IN  Value = ResolvedText(thenDrive(
                        ConsiderAll(NothingFound,
                                    ArgumentsLastFirst \o <<cwd["win32"]>>, 1)))

\* C11: Windows resolve considers the arguments from last to first and then one
\* candidate more: cwd when no argument has named a device, the working
\* directory of the drive otherwise (env["=X:"] if it starts with X:\ in any
\* letter case, the root of the drive otherwise); so cwd is left aside
\* whenever the arguments name a drive
C11_ArgumentsThenCwdOrDriveCwd ==
    (Returned("resolve") /\ Driver = "win32") =>
        LET last(found) ==
                IF found.device = <<>> THEN cwd["win32"]
                ELSE DriveCwd(found.device)
            finish(found) == ResolvedText(Consider(found, last(found)))
        IN  Value = finish(ConsiderAll(NothingFound, ArgumentsLastFirst, 1))

\* resolve("c:", "c") with the working directory c:\c and env["=c:"] = c:\C
\* is c:\C\c: the directory of the drive, not cwd, prefixes the result
C11_Witness ==
    /\ Returned("resolve")
    /\ Driver = "win32"
    /\ call.params = <<Str(<<"c", COLON>>), Str(<<"c">>)>>
    /\ cwd["win32"] = <<"c", COLON, BS, "c">>
    /\ <<"=", "c", COLON>> \in DOMAIN env
    /\ env[<<"=", "c", COLON>>] = <<"c", COLON, BS, "C">>
    /\ Value = <<"c", COLON, BS, "C", BS, "c">>

\* the text found by a scan of the candidates in cands followed by cwd or by
\* the working directory of the drive
Scanned(cands) ==
    LET last(found) ==
            IF found.device = <<>> THEN cwd["win32"]
            ELSE DriveCwd(found.device)
        finish(found) == ResolvedText(Consider(found, last(found)))
    IN  finish(ConsiderAll(NothingFound, cands, 1))

DeviceOf(path) == win32_statPath(path).device

\* a device as resolve writes it: a UNC root as \\server\share
Canonical(device) ==
    IF device = <<>> \/ IsDriveLetter(device) THEN device
    ELSE UNCRoot(Pieces(device, WinSeps)[1], Pieces(device, WinSeps)[2])

\* C12: the result of Windows resolve starts with the device of the last
\* argument that has one (else of cwd), a UNC root written as \\server\share;
\* an earlier argument on another device contributes nothing, and an earlier
\* argument on the same device in another letter case counts as if it were
\* written with the device of the later one
C12_SkipsConflictingDevices ==
    (Returned("resolve") /\ Driver = "win32") =>
        LET from == call.params[1].v
            to == call.params[2].v
            device == IF DeviceOf(to) # <<>> THEN DeviceOf(to)
                      ELSE IF DeviceOf(from) # <<>> THEN DeviceOf(from)
                      ELSE DeviceOf(cwd["win32"])
        IN  /\ substr0(Value, Len(Canonical(device))) = Canonical(device)
            /\ ( /\ DeviceOf(from) # <<>>
                 /\ DeviceOf(to) # <<>>
                 /\ toLowerCase(DeviceOf(from)) # toLowerCase(DeviceOf(to)) )
               => Value = Scanned(<<to>>)
            /\ ( /\ DeviceOf(from) # DeviceOf(to)
                 /\ toLowerCase(DeviceOf(from)) = toLowerCase(DeviceOf(to)) )
               => Value = Scanned(<<to, DeviceOf(to)
                                          \o sliceFrom(from, Len(DeviceOf(from)))>>)

\* resolve("C:c", "c:") is c:\c: the first argument is on the drive of the
\* second in the other letter case, and its directory is in the result
C12_Witness ==
    /\ Returned("resolve")
    /\ Driver = "win32"
    /\ call.params = <<Str(<<"C", COLON, "c">>), Str(<<"c", COLON>>)>>
    /\ env = EmptyEnv
    /\ Value = <<"c", COLON, BS, "c">>

\* the separators of the assigned driver
Seps == IF Driver = "win32" THEN WinSeps ELSE PosixSeps

\* the last segment of s, its trailing separators ignored
LastSegment(s, seps) ==
    LET kept == {i \in 1..Len(s) : s[i] \notin seps}
        last == CHOOSE i \in kept : \A j \in kept : j <= i
        cuts == {i \in 0..last : i = 0 \/ s[i] \in seps}
        cut == CHOOSE i \in cuts : \A j \in cuts : j <= i
    IN  IF kept = {} THEN <<>> ELSE SubSeq(s, cut + 1, last)

\* the positions of the dots of s
Dots(s) == {i \in 1..Len(s) : s[i] = DOT}

\* s from its last dot on, s having a dot
FromLastDot(s) ==
    sliceFrom(s, (CHOOSE i \in Dots(s) : \A j \in Dots(s) : j <= i) - 1)

\* C13: on both drivers extname(p) is a suffix of the last segment of p,
\* trailing separators ignored: either empty or the segment from its last dot
\* on, with no other dot and no separator; it is empty when the segment is
\* ".", is "..", has no dot or has its only dot as first character; the
\* extension of /a/b.txt is .txt and the one of /a/b is empty
C13_ExtnameConvention ==
    (Returned("extname") /\ Driver \in Drivers) =>
        LET p == call.params[1]
            segment == LastSegment(p, Seps)
        IN  /\ Len(Value) <= Len(segment)
            /\ Value = sliceFrom(segment, Len(segment) - Len(Value))
            /\ \/ Value = <<>>
               \/ /\ Dots(segment) # {}
                  /\ Value = FromLastDot(segment)
                  /\ Dots(Value) = {1}
                  /\ \A i \in 1..Len(Value) : Value[i] \notin Seps
            /\ ( \/ segment = <<DOT>>
                 \/ segment = <<DOT, DOT>>
                 \/ Dots(segment) = {}
                 \/ Dots(segment) = {1} )
               => Value = <<>>
            /\ p = <<FS, "c", FS, "C", DOT, "c", "C", "c">>
               => Value = <<DOT, "c", "C", "c">>
            /\ p = <<FS, "c", FS, "C">> => Value = <<>>

\* extname of c.C.c is .c on both drivers: the segment from its last dot on
C13_Witness ==
    /\ Returned("extname")
    /\ call.params = << <<"c", DOT, "C", DOT, "c">> >>
    /\ Value = <<DOT, "c">>

=============================================================================
